---- MODULE Spec2Model ----
(***************************************************************************)
(* Longitudinal planner of selfdrive/controls/lib/longitudinal_planner.py. *)
(*                                                                         *)
(* Numbers.  The program computes in floating point; the model computes in *)
(* fixed point.  An acceleration is an integer number of quanta, AQ quanta *)
(* to 1 m/s^2, and a speed is an integer number of quanta, VQ quanta to    *)
(* 1 m/s.  AQ is a multiple of 100 (the tables have two decimals) and of   *)
(* 4^MaxChain, so that the warm-start interpolation, which divides by      *)
(* LON_MPC_STEP / radarTimeStep = 4 once per cycle, is exact for MaxChain  *)
(* consecutive warm-started cycles.  VQ = 40 * AQ makes the trapezoidal    *)
(* speed step radarTimeStep * (a0 + a1) / 2 exact as well.  Table lookups  *)
(* (interp) and the square root of limit_accel_in_turns round down to      *)
(* 0.01 m/s^2.                                                             *)
(*                                                                         *)
(* Collaborators.  speed_smoother, LongitudinalMpc, LongitudinalMpcModel   *)
(* and FCWChecker are called by the planner and defined elsewhere: a call  *)
(* returns, or leaves in the object, any value of a small set, and the     *)
(* model records the arguments the planner passes.                         *)
(*                                                                         *)
(* Left out: the speed-camera bookkeeping of update() (lines 189-234) and  *)
(* of publish() (lines 339-355) and the lead passthrough fields of the     *)
(* message, which read and write only fields of their own.                 *)
(***************************************************************************)
EXTENDS Integers, Sequences, FiniteSets, TLC

\* Longest run of consecutive cycles that each start from the previous
\* cycle's interpolated v_acc_next / a_acc_next.
MaxChain == 1

AQ == 100 * (4 ^ MaxChain)
VQ == 40 * AQ

\* Values of the source written in decimal: centi(170) is 1.70 m/s^2,
\* mps(8) is 8 m/s.
centi(c) == c * (AQ \div 100)
mps(v) == v * VQ

Min2(a, b) == IF a <= b THEN a ELSE b
Max2(a, b) == IF a >= b THEN a ELSE b
Abs(x) == IF x < 0 THEN -x ELSE x

RECURSIVE SeqMin(_)
SeqMin(s) == IF Len(s) = 1 THEN s[1] ELSE Min2(s[1], SeqMin(Tail(s)))

\* Largest r in lo..hi with r * r <= n, by bisection; lo * lo <= n.
RECURSIVE isqrt_between(_, _, _)
isqrt_between(n, lo, hi) ==
  IF lo >= hi THEN lo
  ELSE LET mid == (lo + hi + 1) \div 2
       IN IF mid * mid <= n THEN isqrt_between(n, mid, hi)
          ELSE isqrt_between(n, lo, mid - 1)

\* math.sqrt(n) rounded down, for 0 <= n <= 1000 ** 2.
isqrt(n) == isqrt_between(n, 0, 1000)

LON_MPC_STEP == 200        \* milliseconds
AWARENESS_DECEL == -20     \* centi m/s^2
V_CRUISE_MAX == 144        \* km/h

\* Lookup tables: values in centi m/s^2, breakpoints in deci m/s.
A_CRUISE_MIN_V_FOLLOWING == <<-270, -240, -200, -140, -50>>
A_CRUISE_MIN_V == <<-100, -80, -67, -50, -30>>
A_CRUISE_MIN_BP == <<0, 50, 100, 200, 400>>
A_CRUISE_MAX_V == <<120, 120, 65, 40>>
A_CRUISE_MAX_V_FOLLOWING == <<160, 160, 65, 40>>
A_CRUISE_MAX_BP == <<0, 64, 225, 400>>
A_TOTAL_MAX_V == <<170, 320>>
A_TOTAL_MAX_BP == <<200, 400>>

\* CV.DEG_TO_RAD = pi / 180, in micro-radians per degree.
DEG_TO_RAD == 17453
\* CV.KPH_TO_MS = 1 / 3.6: a speed in km/h as speed quanta.
KPH_TO_MS(kph) == (kph * VQ * 10) \div 36

\* common.numpy_fast.interp: piecewise linear in x over the breakpoints xp,
\* clamped to the first and last value outside them.  x and xp in deci m/s.
interp(x, xp, fp) ==
  IF x <= xp[1] THEN fp[1]
  ELSE IF x >= xp[Len(xp)] THEN fp[Len(fp)]
  ELSE LET i == CHOOSE j \in 1..(Len(xp) - 1) : xp[j] <= x /\ x < xp[j + 1]
       IN fp[i] + ((x - xp[i]) * (fp[i + 1] - fp[i])) \div (xp[i + 1] - xp[i])

\* A speed in quanta as deci m/s, rounded down.
deci(v) == v \div (VQ \div 10)

\* calc_cruise_accel_limits, mutated: the two branches are exchanged.
calc_cruise_accel_limits_swapped(v_ego, following) ==
  IF ~following
  THEN <<centi(interp(deci(v_ego), A_CRUISE_MIN_BP, A_CRUISE_MIN_V_FOLLOWING)),
         centi(interp(deci(v_ego), A_CRUISE_MAX_BP, A_CRUISE_MAX_V_FOLLOWING))>>
  ELSE <<centi(interp(deci(v_ego), A_CRUISE_MIN_BP, A_CRUISE_MIN_V)),
         centi(interp(deci(v_ego), A_CRUISE_MAX_BP, A_CRUISE_MAX_V))>>

\* calc_cruise_accel_limits(v_ego, following): <<a_cruise_min, a_cruise_max>>
\* in acceleration quanta.
calc_cruise_accel_limits(v_ego, following) ==
  IF following
  THEN <<centi(interp(deci(v_ego), A_CRUISE_MIN_BP, A_CRUISE_MIN_V_FOLLOWING)),
         centi(interp(deci(v_ego), A_CRUISE_MAX_BP, A_CRUISE_MAX_V_FOLLOWING))>>
  ELSE <<centi(interp(deci(v_ego), A_CRUISE_MIN_BP, A_CRUISE_MIN_V)),
         centi(interp(deci(v_ego), A_CRUISE_MAX_BP, A_CRUISE_MAX_V))>>

\* The vehicle parameters the planner reads (CP / self.CP): steerRatio,
\* wheelbase in deci metres, minSpeedCan in speed quanta, startAccel in
\* acceleration quanta, radarTimeStep in milliseconds.
CP == [steerRatio |-> 15, wheelbase |-> 27, minSpeedCan |-> mps(1) \div 2,
       startAccel |-> centi(100), radarTimeStep |-> 50]

\* a_y = v_ego**2 * angle_steers * DEG_TO_RAD / (steerRatio * wheelbase), in
\* centi m/s^2; v_ego in speed quanta, angle_steers in whole degrees.
lateral_accel(v_ego, angle_steers) ==
  (((deci(v_ego) * deci(v_ego) * angle_steers) \div 1000) * DEG_TO_RAD)
     \div (CP.steerRatio * CP.wheelbase * 100)

\* a_x_allowed = sqrt(max(a_total_max**2 - a_y**2, 0)), in acceleration quanta.
a_x_allowed(v_ego, angle_steers) ==
  LET a_total_max == interp(deci(v_ego), A_TOTAL_MAX_BP, A_TOTAL_MAX_V)
      a_y == lateral_accel(v_ego, angle_steers)
  IN centi(isqrt(Max2(a_total_max * a_total_max - a_y * a_y, 0)))

\* The upper bound a mutated limiter would return: the allowed longitudinal
\* acceleration itself, without the min with a_target[1].
limit_accel_in_turns_nomin(v_ego, angle_steers, a_target) ==
  <<a_target[1], a_x_allowed(v_ego, angle_steers)>>

\* limit_accel_in_turns(v_ego, angle_steers, a_target, CP)
limit_accel_in_turns(v_ego, angle_steers, a_target) ==
  <<a_target[1], Min2(a_target[2], a_x_allowed(v_ego, angle_steers))>>

(***************************************************************************)
(* ModelMpcHelper.  A sequence indexed from 0 in the source is indexed     *)
(* from 1 here: x[t] of the source is x[t + 1].                            *)
(***************************************************************************)
ModelLen == 33
MpcLen == 10

\* model_t_dist, mutated: model_t[i] = i ** 2 / 100, times 1000.
model_t_dist_hundredths(idx, i) == Abs(1000 * idx - 10 * i * i)

\* |idx - model_t[i]| with model_t[i] = i ** 2 / 102.4, times 1024.
model_t_dist(idx, i) == Abs(1024 * idx - 10 * i * i)

\* model_t_idx[idx]: sorted(range(33), key=distance)[0], the first index of
\* the smallest distance (sorted is stable).
model_t_idx(idx) ==
  CHOOSE i \in 0..(ModelLen - 1) :
    /\ \A j \in 0..(ModelLen - 1) : model_t_dist(idx, i) <= model_t_dist(idx, j)
    /\ \A j \in 0..(i - 1) : model_t_dist(idx, j) > model_t_dist(idx, i)

\* model_t_idx, computed once in ModelMpcHelper.__init__.
MODEL_T_IDX == [idx \in 0..(MpcLen - 1) |-> model_t_idx(idx)]

\* A mutated difference: forward instead of central.
central_diff_forward(speeds, t) == (speeds[t + 2] - speeds[t + 1]) \div 2

\* Central difference of the resampled speeds at mpc step t, 0 < t < 9.
central_diff(speeds, t) == (speeds[t + 2] - speeds[t]) \div 2

\* The value appended at the far edge, from the accelerations so far.
extrapolate_forward(acc) == acc[Len(acc)] - (acc[Len(acc) - 1] - acc[Len(acc)])

\* The value inserted at the near edge, from the accelerations so far.
extrapolate_backward(acc) == acc[1] - (acc[2] - acc[1])

\* convert_data, mutated: the trajectory is converted whether alive or not.
convert_data_stale(alive, modelV2) ==
  IF Len(modelV2.position_x) = 0
  THEN [distances |-> <<>>, speeds |-> <<>>, accelerations |-> <<>>]
  ELSE LET speeds == [t \in 1..MpcLen |-> modelV2.velocity_x[MODEL_T_IDX[t - 1] + 1]]
           distances == [t \in 1..MpcLen |-> modelV2.position_x[MODEL_T_IDX[t - 1] + 1]]
           inner == [t \in 1..(MpcLen - 2) |-> central_diff(speeds, t)]
           fwd == Append(inner, extrapolate_forward(inner))
           all == <<extrapolate_backward(fwd)>> \o fwd
       IN [distances |-> distances, speeds |-> speeds, accelerations |-> all]

\* ModelMpcHelper.convert_data(sm): sm.alive['modelV2'] and sm['modelV2'].
\* Speeds and distances in speed quanta, accelerations in speed quanta per
\* second.
convert_data(alive, modelV2) ==
  IF ~alive \/ Len(modelV2.position_x) = 0
  THEN [distances |-> <<>>, speeds |-> <<>>, accelerations |-> <<>>]
  ELSE LET speeds == [t \in 1..MpcLen |-> modelV2.velocity_x[MODEL_T_IDX[t - 1] + 1]]
           distances == [t \in 1..MpcLen |-> modelV2.position_x[MODEL_T_IDX[t - 1] + 1]]
           inner == [t \in 1..(MpcLen - 2) |-> central_diff(speeds, t)]
           fwd == Append(inner, extrapolate_forward(inner))
           all == <<extrapolate_backward(fwd)>> \o fwd
       IN [distances |-> distances, speeds |-> speeds, accelerations |-> all]

(***************************************************************************)
(* Planner state.                                                          *)
(*   planner      the fields of Planner that update() and publish() use    *)
(*   mpc1, mpc2   the two LongitudinalMpc objects, as far as the planner   *)
(*                reads and writes them                                    *)
(*   mpc_model    the LongitudinalMpcModel object, likewise                *)
(*   fcw_checker  the FCWChecker calls of the latest cycle, in order, and  *)
(*                what its update returned                                 *)
(*   smoother     the speed_smoother call of the latest cycle              *)
(*   sm           the input snapshot of the latest cycle, with what the    *)
(*                cycle read besides the messages: sec_since_boot(), the   *)
(*                parameter ModelLongEnabled and CP.sccBus                 *)
(*   plan_send    the longitudinalPlan message published in this cycle     *)
(*   pc           what plannerd's loop does next: update, then publish     *)
(*   chain        cycles since a_acc_next was last a whole table value     *)
(*   call         the latest call of a pure function, for the              *)
(*                specifications that exercise one function alone          *)
(*   twin         a second Planner with its collaborators, snapshot and    *)
(*                message, for the specification that runs two planners    *)
(*                side by side                                             *)
(***************************************************************************)
VARIABLES planner, mpc1, mpc2, mpc_model, fcw_checker, smoother, sm,
          plan_send, pc, chain, call, twin

vars == <<planner, mpc1, mpc2, mpc_model, fcw_checker, smoother, sm,
          plan_send, pc, chain, call, twin>>

plannerVars == <<planner, mpc1, mpc2, mpc_model, fcw_checker, smoother, sm,
                 plan_send, pc, chain, twin>>

NoCall == [fn |-> "none"]
NoMsg == [valid |-> FALSE]
NoSnapshot == [received |-> FALSE]

\* Planner.__init__
PlannerInit ==
  [v_acc_start |-> 0, a_acc_start |-> 0, v_acc_next |-> 0, a_acc_next |-> 0,
   v_acc |-> 0, v_acc_future |-> 0, a_acc |-> 0, v_cruise |-> 0, a_cruise |-> 0,
   longitudinalPlanSource |-> "cruise", fcw |-> FALSE, first_loop |-> TRUE]

\* LongitudinalMpc(mpc_id) as constructed: the fields the planner reads.
MpcInit ==
  [v_mpc |-> 0, a_mpc |-> 0, v_mpc_future |-> 0, prev_lead_status |-> FALSE,
   new_lead |-> FALSE, cur_state |-> <<0, 0>>]

\* LongitudinalMpcModel() as constructed.
MpcModelInit ==
  [v_mpc |-> 0, a_mpc |-> 0, v_mpc_future |-> 0, valid |-> FALSE,
   cur_state |-> <<0, 0>>, n_in |-> <<0, 0, 0>>]

\* A second planner as constructed.
TwinInit ==
  [planner |-> PlannerInit, mpc1 |-> MpcInit, mpc2 |-> MpcInit,
   mpc_model |-> MpcModelInit, fcw_checker |-> [calls |-> <<>>, ret |-> FALSE],
   smoother |-> [called |-> FALSE], sm |-> NoSnapshot, plan_send |-> NoMsg]

Init ==
  /\ planner = PlannerInit
  /\ mpc1 = MpcInit
  /\ mpc2 = MpcInit
  /\ mpc_model = MpcModelInit
  /\ fcw_checker = [calls |-> <<>>, ret |-> FALSE]
  /\ smoother = [called |-> FALSE]
  /\ sm = NoSnapshot
  /\ plan_send = NoMsg
  /\ pc = "update"
  /\ chain = 0
  /\ call = NoCall
  /\ twin = TwinInit

(***************************************************************************)
(* Planner.choose_solution                                                 *)
(***************************************************************************)
\* solutions, mutated: the lead candidates whether eligible or not.
solutions_unfiltered(p, m1, m2, mm, model_enabled) ==
  <<<<"cruise", p.v_cruise>>, <<"mpc1", m1.v_mpc>>, <<"mpc2", m2.v_mpc>>>>
    \o (IF mm.valid /\ model_enabled THEN <<<<"model", mm.v_mpc>>>> ELSE <<>>)

\* The dict solutions in insertion order, as <<label, speed>> pairs.
solutions(p, m1, m2, mm, model_enabled) ==
  <<<<"cruise", p.v_cruise>>>>
    \o (IF m1.prev_lead_status THEN <<<<"mpc1", m1.v_mpc>>>> ELSE <<>>)
    \o (IF m2.prev_lead_status THEN <<<<"mpc2", m2.v_mpc>>>> ELSE <<>>)
    \o (IF mm.valid /\ model_enabled THEN <<<<"model", mm.v_mpc>>>> ELSE <<>>)

\* A mutated min: the last key of the smallest value instead of the first.
slowest_last(sols) ==
  LET i == CHOOSE k \in 1..Len(sols) :
             /\ \A j \in 1..Len(sols) : sols[k][2] <= sols[j][2]
             /\ \A j \in (k + 1)..Len(sols) : sols[j][2] > sols[k][2]
  IN sols[i][1]

\* min(solutions, key=solutions.get): the first key, in insertion order, of
\* the smallest value.
slowest(sols) ==
  LET i == CHOOSE k \in 1..Len(sols) :
             /\ \A j \in 1..Len(sols) : sols[k][2] <= sols[j][2]
             /\ \A j \in 1..(k - 1) : sols[j][2] > sols[k][2]
  IN sols[i][1]

\* possible_futures, mutated: the lead futures only when the lead is eligible.
possible_futures_filtered(m1, m2, mm, v_cruise_setpoint, enabled, model_enabled) ==
  (IF m1.prev_lead_status THEN <<m1.v_mpc_future>> ELSE <<>>)
    \o (IF m2.prev_lead_status THEN <<m2.v_mpc_future>> ELSE <<>>)
    \o <<v_cruise_setpoint>>
    \o (IF enabled /\ mm.valid /\ model_enabled THEN <<mm.v_mpc_future>> ELSE <<>>)

\* possible_futures at line 162.
possible_futures(m1, m2, mm, v_cruise_setpoint, enabled, model_enabled) ==
  <<m1.v_mpc_future, m2.v_mpc_future, v_cruise_setpoint>>
    \o (IF enabled /\ mm.valid /\ model_enabled THEN <<mm.v_mpc_future>> ELSE <<>>)

\* choose_solution, mutated: the selection is made whether enabled or not.
choose_solution_always(p, m1, m2, mm, v_cruise_setpoint, enabled, model_enabled) ==
  LET src == slowest(solutions(p, m1, m2, mm, model_enabled))
      chosen ==
        [p EXCEPT
          !.longitudinalPlanSource = src,
          !.v_acc = CASE src = "mpc1" -> m1.v_mpc
                      [] src = "mpc2" -> m2.v_mpc
                      [] src = "cruise" -> p.v_cruise
                      [] src = "model" -> mm.v_mpc,
          !.a_acc = CASE src = "mpc1" -> m1.a_mpc
                      [] src = "mpc2" -> m2.a_mpc
                      [] src = "cruise" -> p.a_cruise
                      [] src = "model" -> mm.a_mpc]
  IN [chosen EXCEPT !.v_acc_future =
        SeqMin(possible_futures(m1, m2, mm, v_cruise_setpoint, enabled, model_enabled))]

\* The planner after choose_solution(v_cruise_setpoint, enabled, model_enabled).
choose_solution(p, m1, m2, mm, v_cruise_setpoint, enabled, model_enabled) ==
  LET src == slowest(solutions(p, m1, m2, mm, model_enabled))
      chosen ==
        IF ~enabled THEN p
        ELSE [p EXCEPT
               !.longitudinalPlanSource = src,
               !.v_acc = CASE src = "mpc1" -> m1.v_mpc
                           [] src = "mpc2" -> m2.v_mpc
                           [] src = "cruise" -> p.v_cruise
                           [] src = "model" -> mm.v_mpc,
               !.a_acc = CASE src = "mpc1" -> m1.a_mpc
                           [] src = "mpc2" -> m2.a_mpc
                           [] src = "cruise" -> p.a_cruise
                           [] src = "model" -> mm.a_mpc]
  IN [chosen EXCEPT !.v_acc_future =
        SeqMin(possible_futures(m1, m2, mm, v_cruise_setpoint, enabled, model_enabled))]

(***************************************************************************)
(* Planner.update                                                          *)
(***************************************************************************)
\* enabled, line 183
enabled(snap) == snap.controlsState.longControlState \in {"pid", "stopping"}

\* following, line 184
following(snap) ==
  LET lead_1 == snap.radarState.leadOne
  IN /\ lead_1.status
     /\ lead_1.dRel < 45
     /\ lead_1.vLeadK > snap.carState.vEgo
     /\ lead_1.aLeadK > 0

\* v_cruise_setpoint, lines 171-178
v_cruise_setpoint(snap) ==
  LET v_cruise_kph == IF snap.sccBus = 2 THEN snap.carState.vSetDis
                      ELSE snap.controlsState.vCruise
  IN KPH_TO_MS(Min2(v_cruise_kph, V_CRUISE_MAX))

\* normal_path, mutated: the first cycle is treated like any other.
normal_path_ignores_first_loop(p, snap) ==
  /\ enabled(snap)
  /\ ~snap.carState.brakePressed
  /\ ~snap.carState.gasPressed

\* normal_path, mutated: the gas pedal is not looked at.
normal_path_ignores_gas(p, snap) ==
  /\ enabled(snap)
  /\ ~p.first_loop
  /\ ~snap.carState.brakePressed

\* The condition of line 237: the cycle runs the cruise smoother.
normal_path(p, snap) ==
  /\ enabled(snap)
  /\ ~p.first_loop
  /\ ~snap.carState.brakePressed
  /\ ~snap.carState.gasPressed

\* awareness_decel, mutated: the branch is not disabled.
awareness_decel_enabled(force_slow_decel, limits) ==
  IF force_slow_decel
  THEN LET hi == Min2(limits[2], centi(AWARENESS_DECEL))
       IN <<Min2(limits[1], hi), hi>>
  ELSE limits

\* Lines 242-245: the awareness deceleration, disabled by "and False".
awareness_decel(force_slow_decel, limits) ==
  IF force_slow_decel /\ FALSE
  THEN LET hi == Min2(limits[2], centi(AWARENESS_DECEL))
       IN <<Min2(limits[1], hi), hi>>
  ELSE limits

\* The arguments of the speed_smoother call of lines 247-251; p is the planner
\* after lines 186-187.
smoother_args(p, snap) ==
  LET accel_limits == calc_cruise_accel_limits(snap.carState.vEgo, following(snap))
      jerk_limits == <<Min2(centi(-10), accel_limits[1]), Max2(centi(10), accel_limits[2])>>
      accel_limits_turns ==
        awareness_decel(snap.controlsState.forceDecel,
          limit_accel_in_turns(snap.carState.vEgo, snap.carState.steeringAngleDeg,
                               accel_limits))
  IN <<p.v_acc_start, p.a_acc_start, v_cruise_setpoint(snap),
       accel_limits_turns[2], accel_limits_turns[1],
       jerk_limits[2], jerk_limits[1], LON_MPC_STEP>>

\* reset_speed, mutated: the ego speed in every control state.
reset_speed_ego(snap) == snap.carState.vEgo

\* reset_speed and reset_accel, lines 256-259
reset_speed(snap) ==
  IF snap.controlsState.longControlState = "starting" THEN CP.minSpeedCan
  ELSE snap.carState.vEgo

\* reset_accel, mutated: the ego acceleration as it is.
reset_accel_unclamped(snap) ==
  IF snap.controlsState.longControlState = "starting" THEN CP.startAccel
  ELSE snap.carState.aEgo

reset_accel(snap) ==
  IF snap.controlsState.longControlState = "starting" THEN CP.startAccel
  ELSE Min2(snap.carState.aEgo, 0)

\* Lines 186-187, mutated: the warm start is taken from the previous targets.
warm_start_from_target(p) ==
  [p EXCEPT !.v_acc_start = p.v_acc, !.a_acc_start = p.a_acc]

\* Lines 186-187: the previous cycle's interpolation is this cycle's start.
warm_start(p) ==
  [p EXCEPT !.v_acc_start = p.v_acc_next, !.a_acc_start = p.a_acc_next]

\* cruise_control, mutated: the smoothed speed is kept as returned.
cruise_control_unfloored(p, snap, smoothed) ==
  LET p1 == warm_start(p)
  IN IF normal_path(p, snap)
     THEN [p1 EXCEPT !.v_cruise = smoothed.v, !.a_cruise = smoothed.a]
     ELSE [p1 EXCEPT !.v_acc = reset_speed(snap), !.a_acc = reset_accel(snap),
                     !.v_acc_start = reset_speed(snap),
                     !.a_acc_start = reset_accel(snap),
                     !.v_cruise = reset_speed(snap), !.a_cruise = reset_accel(snap)]

\* The planner after lines 186-265; smoothed is what speed_smoother returned.
cruise_control(p, snap, smoothed) ==
  LET p1 == warm_start(p)
  IN IF normal_path(p, snap)
     THEN [p1 EXCEPT !.v_cruise = Max2(smoothed.v, 0), !.a_cruise = smoothed.a]
     ELSE [p1 EXCEPT !.v_acc = reset_speed(snap), !.a_acc = reset_accel(snap),
                     !.v_acc_start = reset_speed(snap),
                     !.a_acc_start = reset_accel(snap),
                     !.v_cruise = reset_speed(snap), !.a_cruise = reset_accel(snap)]

\* Lines 283-292, the FCWChecker calls of a cycle in order.  Mutated: the reset
\* follows the update.
fcw_calls_reset_last(new_lead, t) ==
  <<[op |-> "update", t |-> t]>>
    \o (IF new_lead THEN <<[op |-> "reset_lead", t |-> t]>> ELSE <<>>)

fcw_calls(new_lead, t) ==
  (IF new_lead THEN <<[op |-> "reset_lead", t |-> t]>> ELSE <<>>)
    \o <<[op |-> "update", t |-> t]>>

\* self.fcw, line 287-292, mutated: the warner's result as it is.
fcw_flag_raw(warned, snap) == warned

\* self.fcw, lines 287-292
fcw_flag(warned, snap) == warned /\ ~snap.carState.brakePressed

\* a_acc_sol, mutated: the ratio of the two steps is inverted.
a_acc_sol_inverse_ratio(p) ==
  p.a_acc_start + (LON_MPC_STEP * (p.a_acc - p.a_acc_start)) \div CP.radarTimeStep

\* a_acc_sol, line 297
a_acc_sol(p) ==
  p.a_acc_start + (CP.radarTimeStep * (p.a_acc - p.a_acc_start)) \div LON_MPC_STEP

\* v_acc_sol, line 298
v_acc_sol(p) ==
  p.v_acc_start
    + (CP.radarTimeStep * (a_acc_sol(p) + p.a_acc_start) * (VQ \div AQ)) \div 2000

\* Lines 296-302
interpolate(p) ==
  [p EXCEPT !.v_acc_next = v_acc_sol(p), !.a_acc_next = a_acc_sol(p),
            !.first_loop = FALSE]

\* Planner.update(sm, CP) as a function of the planner p it is called on:
\* the planner and its collaborators after the cycle.  snap is the snapshot
\* sm (with the parameters and CP.sccBus read during the cycle); ret is what
\* the collaborators return during the cycle: speed_smoother, the update of
\* the three optimizers and FCWChecker.update.
update(p, snap, ret) ==
  LET p1 == cruise_control(p, snap, ret.smoother)
      conv == convert_data(snap.alive_modelV2, snap.modelV2)
      m1 == [ret.mpc1 EXCEPT !.cur_state = <<p1.v_acc_start, p1.a_acc_start>>]
      m2 == [ret.mpc2 EXCEPT !.cur_state = <<p1.v_acc_start, p1.a_acc_start>>]
      mm == [ret.mpc_model EXCEPT
               !.cur_state = <<p1.v_acc_start, p1.a_acc_start>>,
               !.n_in = <<Len(conv.distances), Len(conv.speeds),
                          Len(conv.accelerations)>>]
      p2 == choose_solution(p1, m1, m2, mm, v_cruise_setpoint(snap),
                            enabled(snap), snap.ModelLongEnabled)
  IN [planner |-> interpolate([p2 EXCEPT !.fcw = fcw_flag(ret.fcw, snap)]),
      mpc1 |-> m1,
      mpc2 |-> m2,
      mpc_model |-> mm,
      fcw_checker |-> [calls |-> fcw_calls(m1.new_lead, snap.cur_time),
                       ret |-> ret.fcw],
      smoother |-> IF normal_path(p, snap)
                   THEN [called |-> TRUE,
                         args |-> smoother_args(warm_start(p), snap),
                         ret |-> ret.smoother]
                   ELSE [called |-> FALSE]]

\* One cycle of the planner: Planner.update(sm, CP) on snapshot snap with the
\* collaborators returning ret.
Update(snap, ret) ==
  /\ pc = "update"
  /\ normal_path(planner, snap) => chain < MaxChain
  /\ \E after \in {update(planner, snap, ret)} :
       /\ planner' = after.planner
       /\ mpc1' = after.mpc1
       /\ mpc2' = after.mpc2
       /\ mpc_model' = after.mpc_model
       /\ fcw_checker' = after.fcw_checker
       /\ smoother' = after.smoother
  /\ sm' = snap
  /\ chain' = IF normal_path(planner, snap) THEN chain + 1
              ELSE IF enabled(snap) THEN 1 ELSE 0
  /\ pc' = "publish"
  /\ plan_send' = NoMsg
  /\ UNCHANGED call

\* The longitudinalPlan message of publish(), without the lead passthrough
\* and speed-camera fields.
message(p, m1) ==
  [valid |-> TRUE,
   vCruise |-> p.v_cruise, aCruise |-> p.a_cruise,
   vStart |-> p.v_acc_start, aStart |-> p.a_acc_start,
   vTarget |-> p.v_acc, aTarget |-> p.a_acc,
   vTargetFuture |-> p.v_acc_future,
   hasLead |-> m1.prev_lead_status,
   longitudinalPlanSource |-> p.longitudinalPlanSource,
   fcw |-> p.fcw]

\* Planner.publish(sm, pm)
Publish ==
  /\ pc = "publish"
  /\ plan_send' = message(planner, mpc1)
  /\ pc' = "update"
  /\ UNCHANGED <<planner, mpc1, mpc2, mpc_model, fcw_checker, smoother, sm,
                 chain, call>>

(***************************************************************************)
(* Inputs.  A cycle's input is a snapshot and the collaborators' returns.  *)
(* Each family below varies some of the fields over all combinations of    *)
(* their values and leaves the others at a default.                        *)
(***************************************************************************)
NoLead == [status |-> FALSE, dRel |-> 0, vLeadK |-> 0, aLeadK |-> 0]
LeadCloseFaster == [status |-> TRUE, dRel |-> 30, vLeadK |-> mps(35), aLeadK |-> centi(50)]
LeadFar == [status |-> TRUE, dRel |-> 60, vLeadK |-> mps(35), aLeadK |-> centi(50)]
Leads == {NoLead, LeadCloseFaster, LeadFar}

\* A model trajectory of 33 samples: the speed starts at v0, grows by dv per
\* sample and steps up by bump at sample k.
Trajectory(v0, dv, k, bump) ==
  [position_x |-> [i \in 1..ModelLen |-> (i - 1) * v0],
   velocity_x |-> [i \in 1..ModelLen |->
                     v0 + (i - 1) * dv + (IF i - 1 >= k THEN bump ELSE 0)]]
EmptyTrajectory == [position_x |-> <<>>, velocity_x |-> <<>>]

LongCtrlStates == {"off", "pid", "stopping", "starting"}
\* <<vEgo, aEgo>>
EgoStates == {<<mps(8), centi(-100)>>, <<mps(30), centi(100)>>}
SetSpeedsKph == {36, 255}
SmootherReturns == {[v |-> mps(-1), a |-> centi(-100)], [v |-> mps(7), a |-> centi(0)],
                    [v |-> mps(10), a |-> centi(100)]}

DefaultSnap ==
  [received |-> TRUE,
   carState |-> [vEgo |-> mps(8), aEgo |-> centi(-100), brakePressed |-> FALSE,
                 gasPressed |-> FALSE, steeringAngleDeg |-> 0, vSetDis |-> 72],
   controlsState |-> [longControlState |-> "pid", vCruise |-> 36, forceDecel |-> FALSE],
   radarState |-> [leadOne |-> NoLead, leadTwo |-> NoLead],
   alive_modelV2 |-> TRUE,
   modelV2 |-> Trajectory(mps(8), mps(1), 0, 0),
   ModelLongEnabled |-> FALSE,
   sccBus |-> 0,
   cur_time |-> 1]

MpcRet(status, new_lead, v, a, fut) ==
  [v_mpc |-> v, a_mpc |-> a, v_mpc_future |-> fut, prev_lead_status |-> status,
   new_lead |-> new_lead, cur_state |-> <<0, 0>>]

MpcModelRet(valid, v, a, fut) ==
  [v_mpc |-> v, a_mpc |-> a, v_mpc_future |-> fut, valid |-> valid,
   cur_state |-> <<0, 0>>, n_in |-> <<0, 0, 0>>]

DefaultRet ==
  [smoother |-> [v |-> mps(10), a |-> centi(100)],
   mpc1 |-> MpcRet(FALSE, FALSE, mps(10), centi(-100), mps(12)),
   mpc2 |-> MpcRet(FALSE, FALSE, mps(10), centi(0), mps(12)),
   mpc_model |-> MpcModelRet(FALSE, mps(10), centi(-200), mps(12)),
   fcw |-> FALSE]

\* <<eligible, target speed>> of a lead optimizer: not eligible and slow,
\* eligible and slow, eligible and fast.
LeadCandidates == {<<FALSE, mps(7)>>, <<TRUE, mps(7)>>, <<TRUE, mps(10)>>}
\* <<valid, ModelLongEnabled, target speed>> of the model optimizer.
ModelCandidates == {<<FALSE, TRUE, mps(7)>>, <<TRUE, FALSE, mps(7)>>,
                    <<TRUE, TRUE, mps(7)>>, <<TRUE, TRUE, mps(10)>>}
\* <<valid, ModelLongEnabled>>
ModelFlags == {<<FALSE, TRUE>>, <<TRUE, FALSE>>, <<TRUE, TRUE>>}

\* The path of the cycle: control state, pedals, ego kinematics, and whether
\* lead one is an eligible slower candidate.
PathInputs ==
  { <<[DefaultSnap EXCEPT !.controlsState.longControlState = lcs,
                          !.carState.brakePressed = brake,
                          !.carState.gasPressed = gas,
                          !.carState.vEgo = ego[1],
                          !.carState.aEgo = ego[2]],
      [DefaultRet EXCEPT !.mpc1.prev_lead_status = s1, !.mpc1.v_mpc = mps(7)]>> :
      lcs \in LongCtrlStates, brake \in BOOLEAN, gas \in BOOLEAN,
      ego \in EgoStates, s1 \in BOOLEAN }

\* The candidates: eligibility and target speed of all four.
ArbiterInputs ==
  { <<[DefaultSnap EXCEPT !.ModelLongEnabled = cm[2]],
      [DefaultRet EXCEPT !.smoother.v = vc,
                         !.mpc1.prev_lead_status = c1[1], !.mpc1.v_mpc = c1[2],
                         !.mpc2.prev_lead_status = c2[1], !.mpc2.v_mpc = c2[2],
                         !.mpc_model.valid = cm[1], !.mpc_model.v_mpc = cm[3]]>> :
      vc \in {mps(7), mps(10)}, c1 \in LeadCandidates, c2 \in LeadCandidates,
      cm \in ModelCandidates }

\* The future speeds of the three optimizers, model eligibility, enabled or
\* not; the set speed is 10 m/s.
FutureInputs ==
  { <<[DefaultSnap EXCEPT !.controlsState.longControlState = lcs,
                          !.ModelLongEnabled = fl[2]],
      [DefaultRet EXCEPT !.mpc1.v_mpc_future = f1,
                         !.mpc2.v_mpc_future = f2,
                         !.mpc_model.valid = fl[1], !.mpc_model.v_mpc_future = fm]>> :
      lcs \in {"off", "pid"}, fl \in ModelFlags,
      f1 \in {mps(5), mps(12)}, f2 \in {mps(6), mps(12)}, fm \in {mps(4), mps(12)} }

\* The set speed and where it is read from.
SetSpeedInputs ==
  { <<[DefaultSnap EXCEPT !.controlsState.longControlState = lcs,
                          !.controlsState.vCruise = kph,
                          !.sccBus = bus],
      DefaultRet>> :
      lcs \in {"off", "pid"}, kph \in SetSpeedsKph, bus \in {0, 2} }

\* The collision warning: the time, a new lead, the warner's result, the brake.
FcwInputs ==
  { <<[DefaultSnap EXCEPT !.carState.brakePressed = brake,
                          !.radarState.leadOne = LeadFar,
                          !.cur_time = t],
      [DefaultRet EXCEPT !.mpc1.new_lead = new_lead, !.fcw = warned]>> :
      t \in {1, 2}, brake \in BOOLEAN, new_lead \in BOOLEAN, warned \in BOOLEAN }

\* What the acceleration limits of the cruise smoother depend on.
LimitInputs ==
  { <<[DefaultSnap EXCEPT !.carState.vEgo = v_ego,
                          !.carState.steeringAngleDeg = angle,
                          !.controlsState.forceDecel = force,
                          !.radarState.leadOne = lead],
      DefaultRet>> :
      v_ego \in {mps(8), mps(30)}, angle \in {0, 20}, force \in BOOLEAN, lead \in Leads }

\* What the cruise smoother returns, and the model trajectory.
SmootherInputs ==
  { <<[DefaultSnap EXCEPT !.alive_modelV2 = alive, !.modelV2 = traj],
      [DefaultRet EXCEPT !.smoother = smoothed]>> :
      alive \in BOOLEAN, traj \in {EmptyTrajectory, Trajectory(mps(8), mps(1), 0, 0)},
      smoothed \in SmootherReturns }

Inputs == PathInputs \cup ArbiterInputs \cup FutureInputs \cup SetSpeedInputs
            \cup FcwInputs \cup LimitInputs \cup SmootherInputs

Next ==
  \/ \E io \in Inputs : Update(io[1], io[2]) /\ UNCHANGED twin
  \/ Publish /\ UNCHANGED twin

Spec == Init /\ [][Next]_vars

(***************************************************************************)
(* limit_accel_in_turns alone: any speed, steering angle and pair of       *)
(* limits, those of calc_cruise_accel_limits among them.                   *)
(***************************************************************************)
TurnSpeeds == {mps(0), mps(10), mps(20), mps(25), mps(30), mps(40), mps(50)}
TurnAngles == {-90, -30, 0, 5, 30, 90}
TurnTargets(v_ego) ==
  {calc_cruise_accel_limits(v_ego, f) : f \in BOOLEAN}
    \cup {<<centi(-100), centi(-50)>>, <<centi(-100), centi(0)>>,
          <<centi(-100), centi(200)>>, <<centi(-300), centi(400)>>}

LimitAccelInTurns ==
  /\ \E v_ego \in TurnSpeeds, angle_steers \in TurnAngles :
       \E a_target \in TurnTargets(v_ego) :
         call' = [fn |-> "limit_accel_in_turns", v_ego |-> v_ego,
                  angle_steers |-> angle_steers, a_target |-> a_target,
                  ret |-> limit_accel_in_turns(v_ego, angle_steers, a_target)]
  /\ UNCHANGED plannerVars

NextTurn == LimitAccelInTurns

SpecTurn == Init /\ [][NextTurn]_vars

(***************************************************************************)
(* ModelMpcHelper.convert_data alone.                                      *)
(***************************************************************************)
ModelTrajectories ==
  {EmptyTrajectory}
    \cup {Trajectory(v0, dv, k, bump) :
            v0 \in {mps(0), mps(8), mps(20)}, dv \in {0, mps(1)},
            k \in {0, 10, 14, 18, 25, 30}, bump \in {0, mps(2), mps(6)}}

ConvertData ==
  /\ \E alive \in BOOLEAN, modelV2 \in ModelTrajectories :
       call' = [fn |-> "convert_data", alive |-> alive, modelV2 |-> modelV2,
                ret |-> convert_data(alive, modelV2)]
  /\ UNCHANGED plannerVars

NextConvert == ConvertData

SpecConvert == Init /\ [][NextConvert]_vars

(***************************************************************************)
(* ModelMpcHelper alone: reading the index table its constructor computed  *)
(* and converting a trajectory with it.                                    *)
(***************************************************************************)
ReadModelTIdx ==
  /\ \E idx \in 0..(MpcLen - 1) :
       call' = [fn |-> "model_t_idx", idx |-> idx, ret |-> MODEL_T_IDX[idx],
                table |-> MODEL_T_IDX]
  /\ UNCHANGED plannerVars

NextHelper == ReadModelTIdx \/ ConvertData

SpecHelper == Init /\ [][NextHelper]_vars

(***************************************************************************)
(* calc_cruise_accel_limits alone: speeds from -2 m/s to 45 m/s in steps   *)
(* of 0.2 m/s, below the first and above the last breakpoint included.     *)
(***************************************************************************)
LimitSpeeds == {k * (VQ \div 5) : k \in -10..225}

CalcCruiseAccelLimits ==
  /\ \E v_ego \in LimitSpeeds, is_following \in BOOLEAN :
       call' = [fn |-> "calc_cruise_accel_limits", v_ego |-> v_ego,
                following |-> is_following,
                ret |-> calc_cruise_accel_limits(v_ego, is_following)]
  /\ UNCHANGED plannerVars

NextLimits == CalcCruiseAccelLimits

SpecLimits == Init /\ [][NextLimits]_vars

(***************************************************************************)
(* The planner with the lead tracking of LongitudinalMpc.update: the       *)
(* lead-status flag the planner reads from an optimizer in a cycle is the  *)
(* validity of the lead that optimizer was given in the cycle before.      *)
(***************************************************************************)
\* The flag, mutated: the validity of the lead given in this cycle.
tracked_lead_status_current(prev_sm, snap, lead) == snap.radarState[lead].status

\* prev_lead_status of an optimizer after its update in a cycle with
\* snapshot snap; prev_sm is the snapshot of the cycle before.
tracked_lead_status(prev_sm, snap, lead) ==
  prev_sm.received /\ prev_sm.radarState[lead].status

UpdateTracked(snap, ret) ==
  /\ ret.mpc1.prev_lead_status = tracked_lead_status(sm, snap, "leadOne")
  /\ ret.mpc2.prev_lead_status = tracked_lead_status(sm, snap, "leadTwo")
  /\ Update(snap, ret)

\* Control state, validity of the two leads, and what the two optimizers
\* report: the flag and, for lead one, the target speed.
TrackedInputs ==
  { <<[DefaultSnap EXCEPT !.controlsState.longControlState = lcs,
                          !.radarState.leadOne = l1,
                          !.radarState.leadTwo = l2],
      [DefaultRet EXCEPT !.mpc1.prev_lead_status = s1, !.mpc1.v_mpc = v1,
                         !.mpc2.prev_lead_status = s2, !.mpc2.v_mpc = mps(9)]>> :
      lcs \in {"off", "pid"}, l1 \in {NoLead, LeadFar}, l2 \in {NoLead, LeadFar},
      s1 \in BOOLEAN, s2 \in BOOLEAN, v1 \in {mps(7), mps(12)} }

NextTracked ==
  \/ \E io \in TrackedInputs : UpdateTracked(io[1], io[2]) /\ UNCHANGED twin
  \/ Publish /\ UNCHANGED twin

SpecTracked == Init /\ [][NextTracked]_vars

(***************************************************************************)
(* Two planners side by side.  Both are constructed alike and get, cycle   *)
(* by cycle, the same snapshot except for controlsState.forceDecel, which  *)
(* the second planner gets with a value of its own, and the same returns   *)
(* of the collaborators.                                                   *)
(***************************************************************************)
UpdateBoth(snap, ret, force_slow_decel) ==
  /\ Update(snap, ret)
  /\ \E snap2 \in {[snap EXCEPT !.controlsState.forceDecel = force_slow_decel]} :
       \E after \in {update(twin.planner, snap2, ret)} :
         twin' = [planner |-> after.planner, mpc1 |-> after.mpc1,
                  mpc2 |-> after.mpc2, mpc_model |-> after.mpc_model,
                  fcw_checker |-> after.fcw_checker, smoother |-> after.smoother,
                  sm |-> snap2, plan_send |-> NoMsg]

PublishBoth ==
  /\ Publish
  /\ twin' = [twin EXCEPT !.plan_send = message(twin.planner, twin.mpc1)]

TwinInputs == PathInputs \cup LimitInputs \cup SmootherInputs

NextTwin ==
  \/ \E io \in TwinInputs, force_slow_decel \in BOOLEAN :
       UpdateBoth(io[1], io[2], force_slow_decel)
  \/ PublishBoth

SpecTwin == Init /\ [][NextTwin]_vars

(***************************************************************************)
(* Claims.  What a claim says about "a cycle" is stated of the state the   *)
(* cycle leaves: sm is its snapshot, the other variables its results.      *)
(***************************************************************************)
Enabled == sm.controlsState.longControlState \in {"pid", "stopping"}
BrakePressed == sm.carState.brakePressed
ModelEligible == mpc_model.valid /\ sm.ModelLongEnabled

\* The candidates in the fixed order, and which of them are eligible.
CandidateOrder == <<"cruise", "mpc1", "mpc2", "model">>
Rank(c) == CHOOSE i \in 1..Len(CandidateOrder) : CandidateOrder[i] = c
EligibleCandidates ==
  {"cruise"} \cup (IF mpc1.prev_lead_status THEN {"mpc1"} ELSE {})
             \cup (IF mpc2.prev_lead_status THEN {"mpc2"} ELSE {})
             \cup (IF ModelEligible THEN {"model"} ELSE {})
CandidateV(c) == CASE c = "cruise" -> planner.v_cruise
                   [] c = "mpc1" -> mpc1.v_mpc
                   [] c = "mpc2" -> mpc2.v_mpc
                   [] c = "model" -> mpc_model.v_mpc
CandidateA(c) == CASE c = "cruise" -> planner.a_cruise
                   [] c = "mpc1" -> mpc1.a_mpc
                   [] c = "mpc2" -> mpc2.a_mpc
                   [] c = "model" -> mpc_model.a_mpc

\* C1: after every cycle in which the planner is enabled, the plan source is
\* an eligible candidate (cruise always is one; lead one and lead two when
\* their lead-status flag is set; the model when it is valid and model
\* planning is enabled), v_acc and a_acc are that candidate's speed and
\* acceleration, and no eligible candidate has a lower speed.
C1_SlowestEligibleCandidate ==
  (sm.received /\ Enabled) =>
    LET src == planner.longitudinalPlanSource
    IN /\ src \in EligibleCandidates
       /\ planner.v_acc = CandidateV(src)
       /\ planner.a_acc = CandidateA(src)
       /\ \A c \in EligibleCandidates : planner.v_acc <= CandidateV(c)

\* The example of C1: cruise at 10 m/s, lead one eligible at 7 m/s, the model
\* not eligible: lead one is the source and v_acc is 7 m/s.
C1_Witness ==
  /\ sm.received /\ Enabled
  /\ planner.v_cruise = mps(10)
  /\ mpc1.prev_lead_status /\ mpc1.v_mpc = mps(7)
  /\ ~mpc2.prev_lead_status
  /\ ~ModelEligible /\ mpc_model.v_mpc = mps(7)
  /\ planner.longitudinalPlanSource = "mpc1"
  /\ planner.v_acc = mps(7)
  /\ planner.a_acc = mpc1.a_mpc

\* C2: after every cycle in which the planner is enabled, every eligible
\* candidate whose speed equals the selected speed comes no earlier than the
\* plan source in the order cruise, lead one, lead two, model.
C2_FirstOfTheSlowest ==
  (sm.received /\ Enabled) =>
    LET src == planner.longitudinalPlanSource
    IN /\ src \in EligibleCandidates
       /\ \A c \in EligibleCandidates :
            /\ CandidateV(src) <= CandidateV(c)
            /\ CandidateV(c) = CandidateV(src) => Rank(src) <= Rank(c)

\* A tie of three eligible candidates below cruise: lead one wins.
C2_Witness ==
  /\ sm.received /\ Enabled
  /\ EligibleCandidates = {"cruise", "mpc1", "mpc2", "model"}
  /\ planner.v_cruise > mpc1.v_mpc
  /\ mpc1.v_mpc = mpc2.v_mpc /\ mpc2.v_mpc = mpc_model.v_mpc
  /\ planner.longitudinalPlanSource = "mpc1"

\* C3: a cycle that is enabled, not the first and has neither pedal pressed
\* starts from the v_acc_next and a_acc_next the cycle before it left: they
\* are its v_acc_start and a_acc_start, what the cruise smoother and the
\* three optimizers get as start state, and what it publishes as vStart and
\* aStart.
C3_WarmStartContinuity ==
  /\ [][(/\ pc = "update" /\ pc' = "publish"
         /\ ~planner.first_loop
         /\ sm'.controlsState.longControlState \in {"pid", "stopping"}
         /\ ~sm'.carState.brakePressed
         /\ ~sm'.carState.gasPressed)
        => (/\ planner'.v_acc_start = planner.v_acc_next
            /\ planner'.a_acc_start = planner.a_acc_next
            /\ smoother'.called
            /\ smoother'.args[1] = planner.v_acc_next
            /\ smoother'.args[2] = planner.a_acc_next
            /\ mpc1'.cur_state = <<planner.v_acc_next, planner.a_acc_next>>
            /\ mpc2'.cur_state = <<planner.v_acc_next, planner.a_acc_next>>
            /\ mpc_model'.cur_state = <<planner.v_acc_next, planner.a_acc_next>>)]_vars
  /\ [](plan_send.valid => /\ plan_send.vStart = planner.v_acc_start
                           /\ plan_send.aStart = planner.a_acc_start)

\* A published warm-started cycle whose start differs from the cycle's targets
\* and from the ego state.
C3_Witness ==
  /\ plan_send.valid
  /\ smoother.called
  /\ plan_send.vStart # planner.v_acc
  /\ plan_send.vStart # sm.carState.vEgo
  /\ plan_send.aStart # 0

\* The reset values of a cycle, as the claims state them.
ResetSpeed == IF sm.controlsState.longControlState = "starting" THEN CP.minSpeedCan
              ELSE sm.carState.vEgo
ResetAccel == IF sm.controlsState.longControlState = "starting" THEN CP.startAccel
              ELSE Min2(sm.carState.aEgo, 0)

C5_FcwNotWhileBraking ==
  sm.received =>
    /\ BrakePressed => ~planner.fcw
    /\ ~BrakePressed => (planner.fcw = fcw_checker.ret)

\* The warner warns while the brake is pressed.
C5_Witness ==
  /\ sm.received /\ BrakePressed
  /\ fcw_checker.ret
  /\ ~planner.fcw

\* C6: after every cycle, v_acc_future is at most the minimum of the set
\* speed and the future speeds of lead one and lead two, whether or not the
\* leads are eligible; it is that minimum when the model is not eligible, and
\* when it is lower the model is eligible and it is the model's future speed.
C6_FutureSpeed ==
  sm.received =>
    LET least == Min2(v_cruise_setpoint(sm), Min2(mpc1.v_mpc_future, mpc2.v_mpc_future))
    IN /\ planner.v_acc_future <= least
       /\ ~ModelEligible => planner.v_acc_future = least
       /\ planner.v_acc_future < least =>
            (ModelEligible /\ planner.v_acc_future = mpc_model.v_mpc_future)

\* The future speed of a lead that is not eligible is the lowest, in a cycle
\* that is not enabled and whose model is valid but not enabled.
C6_Witness ==
  /\ sm.received /\ ~Enabled
  /\ ~mpc1.prev_lead_status
  /\ mpc1.v_mpc_future < v_cruise_setpoint(sm)
  /\ mpc1.v_mpc_future < mpc2.v_mpc_future
  /\ mpc_model.valid /\ ~sm.ModelLongEnabled
  /\ mpc_model.v_mpc_future < mpc1.v_mpc_future
  /\ planner.v_acc_future = mpc1.v_mpc_future

\* C7: the warner's update is called once per cycle; when lead one's
\* optimizer reports a new lead, reset_lead is called once, with the cycle's
\* cur_time, before the update; without a new lead it is not called.
C7_ResetBeforeUpdate ==
  sm.received =>
    LET calls == fcw_checker.calls
        updates == {i \in 1..Len(calls) : calls[i].op = "update"}
        resets == {i \in 1..Len(calls) : calls[i].op = "reset_lead"}
    IN /\ Cardinality(updates) = 1
       /\ \A i \in updates : calls[i].t = sm.cur_time
       /\ mpc1.new_lead =>
            /\ Cardinality(resets) = 1
            /\ \A i \in resets : /\ calls[i].t = sm.cur_time
                                 /\ \A j \in updates : i < j
       /\ ~mpc1.new_lead => resets = {}

\* A new lead in a cycle whose cur_time is not that of the other cycles.
C7_Witness ==
  /\ sm.received /\ mpc1.new_lead
  /\ sm.cur_time = 2
  /\ Len(fcw_checker.calls) = 2
  /\ fcw_checker.calls[1] = [op |-> "reset_lead", t |-> 2]

TurnCall == call.fn = "limit_accel_in_turns"

\* C8 as claimed: for every speed, angle and pair of limits, the upper bound
\* limit_accel_in_turns returns is not negative, at a steering angle of zero
\* it is the a_max given, and the lower bound is the a_min given.
C8_NeverNegativeAndUnchangedAtZero ==
  TurnCall =>
    /\ call.ret[2] >= 0
    /\ call.angle_steers = 0 => call.ret[2] = call.a_target[2]
    /\ call.ret[1] = call.a_target[1]

\* C8 as amended: the lower bound is the a_min given and the upper bound is
\* at most the a_max given; the upper bound is not negative when the a_max
\* given is not negative; at a steering angle of zero the upper bound is the
\* a_max given when that is at most 1.7 m/s^2, the smallest total limit.  All
\* of this covers the limits calc_cruise_accel_limits returns, for which the
\* upper bound is never negative and is unchanged at a steering angle of zero.
C8_UpperBound ==
  TurnCall =>
    /\ call.ret[1] = call.a_target[1]
    /\ call.ret[2] <= call.a_target[2]
    /\ call.a_target[2] >= 0 => call.ret[2] >= 0
    /\ (call.angle_steers = 0 /\ call.a_target[2] <= centi(170)) =>
         call.ret[2] = call.a_target[2]
    /\ (\E f \in BOOLEAN : call.a_target = calc_cruise_accel_limits(call.v_ego, f)) =>
         /\ call.ret[2] >= 0
         /\ call.angle_steers = 0 => call.ret[2] = call.a_target[2]

\* The limits of the cruise tables in a turn that lowers the upper bound
\* without closing it.
C8_Witness ==
  /\ TurnCall
  /\ call.a_target = calc_cruise_accel_limits(call.v_ego, TRUE)
  /\ call.angle_steers # 0
  /\ call.ret[2] > 0
  /\ call.ret[2] < call.a_target[2]

ConvertCall == call.fn = "convert_data"

\* C9: convert_data returns 10 distances, 10 speeds and 10 accelerations when
\* the model trajectory is alive and has position samples, and three empty
\* sequences when it is not alive or has no position samples.
C9_TenOrNone ==
  ConvertCall =>
    IF call.alive /\ Len(call.modelV2.position_x) > 0
    THEN /\ Len(call.ret.distances) = 10
         /\ Len(call.ret.speeds) = 10
         /\ Len(call.ret.accelerations) = 10
    ELSE /\ call.ret.distances = <<>>
         /\ call.ret.speeds = <<>>
         /\ call.ret.accelerations = <<>>

\* A trajectory with samples that is not alive: nothing is returned.
C9_Witness ==
  /\ ConvertCall
  /\ ~call.alive
  /\ Len(call.modelV2.position_x) = 33
  /\ call.ret.speeds = <<>>

\* C10: of the 10 accelerations convert_data returns, those at steps 1..8 are
\* half the difference of the resampled speeds one step later and one step
\* earlier, the last continues the last two of them linearly and the first
\* the first two; when the 33 velocities are all the same, all 10 are zero.
\* (Step t of the source is index t + 1 here.)
C10_CentralDifferences ==
  (ConvertCall /\ call.ret.accelerations # <<>>) =>
    LET a == call.ret.accelerations
        v == call.ret.speeds
        vx == call.modelV2.velocity_x
    IN /\ \A t \in 1..8 : 2 * a[t + 1] = v[t + 2] - v[t]
       /\ a[10] = a[9] - (a[8] - a[9])
       /\ a[1] = a[2] - (a[3] - a[2])
       /\ (\A i \in 1..Len(vx) : vx[i] = vx[1]) => \A t \in 1..10 : a[t] = 0

\* A trajectory whose accelerations differ in the middle and at both edges.
C10_Witness ==
  /\ ConvertCall /\ call.ret.accelerations # <<>>
  /\ call.ret.accelerations[1] # call.ret.accelerations[2]
  /\ call.ret.accelerations[9] # call.ret.accelerations[10]
  /\ call.ret.accelerations[5] # 0
  /\ call.ret.speeds[1] # call.ret.speeds[2]

LimitsCall == call.fn = "calc_cruise_accel_limits"

\* The lookup tables as the source writes them, in centi m/s^2 at the
\* breakpoints in deci m/s, for the claims about them.
TableValue(x, xp, fp) ==
  IF x <= xp[1] THEN fp[1]
  ELSE IF x >= xp[Len(xp)] THEN fp[Len(fp)]
  ELSE LET i == CHOOSE j \in 1..(Len(xp) - 1) : xp[j] <= x /\ x < xp[j + 1]
       IN fp[i] + ((x - xp[i]) * (fp[i + 1] - fp[i])) \div (xp[i + 1] - xp[i])

\* C11: for every ego speed, below the first and above the last breakpoint
\* included, and for both values of following, calc_cruise_accel_limits
\* returns a_min <= a_max; the a_min it returns when following is at most,
\* and the a_max at least, the one of the not-following tables at that speed;
\* outside the breakpoints the values are those of the table ends.
C11_MinBelowMax ==
  LimitsCall =>
    LET x == call.v_ego \div (VQ \div 10)
        min_not_following ==
          centi(TableValue(x, <<0, 50, 100, 200, 400>>, <<-100, -80, -67, -50, -30>>))
        max_not_following ==
          centi(TableValue(x, <<0, 64, 225, 400>>, <<120, 120, 65, 40>>))
    IN /\ call.ret[1] <= call.ret[2]
       /\ call.following =>
            /\ call.ret[1] <= min_not_following
            /\ call.ret[2] >= max_not_following
       /\ ~call.following =>
            /\ call.ret[1] = min_not_following
            /\ call.ret[2] = max_not_following
       /\ (call.v_ego <= 0 /\ call.following) =>
            call.ret = <<centi(-270), centi(160)>>
       /\ (call.v_ego >= mps(40) /\ call.following) =>
            call.ret = <<centi(-50), centi(40)>>

\* Following at a low speed: a lower a_min and a higher a_max than the
\* not-following tables give there.
C11_Witness ==
  /\ LimitsCall /\ call.following
  /\ call.v_ego = mps(3)
  /\ call.ret[1] < centi(-100)
  /\ call.ret[2] = centi(160)

\* C12: after every cycle in which the cruise smoother ran, v_cruise is not
\* negative: it is the speed the smoother returned, or 0 when that is
\* negative, and a_cruise is the acceleration the smoother returned.
C12_CruiseSpeedFloor ==
  (sm.received /\ smoother.called) =>
    /\ planner.v_cruise >= 0
    /\ smoother.ret.v >= 0 => planner.v_cruise = smoother.ret.v
    /\ smoother.ret.v < 0 => planner.v_cruise = 0
    /\ planner.a_cruise = smoother.ret.a

\* The smoother returns a negative speed with a negative acceleration.
C12_Witness ==
  /\ sm.received /\ smoother.called
  /\ smoother.ret.v < 0
  /\ planner.v_cruise = 0
  /\ planner.a_cruise = smoother.ret.a
  /\ planner.a_cruise < 0

\* A step that is one cycle of update(): the unprimed variables are the state
\* the cycle starts in, the primed ones the state it leaves, sm' its snapshot.
Cycle == pc = "update" /\ pc' = "publish"

C14_OverrideResets ==
  [][(/\ Cycle
      /\ \/ sm'.carState.brakePressed
         \/ sm'.carState.gasPressed
         \/ sm'.controlsState.longControlState \notin {"pid", "stopping"}
         \/ planner.first_loop)
     => (/\ planner.v_acc_start = ResetSpeed /\ planner.a_acc_start = ResetAccel
         /\ planner.v_cruise = ResetSpeed /\ planner.a_cruise = ResetAccel
         /\ ResetSpeed = (IF sm.controlsState.longControlState = "starting"
                          THEN mps(1) \div 2 ELSE sm.carState.vEgo)
         /\ ResetAccel = (IF sm.controlsState.longControlState = "starting"
                          THEN centi(100)
                          ELSE IF sm.carState.aEgo < 0 THEN sm.carState.aEgo ELSE 0)
         /\ mpc1.cur_state = <<ResetSpeed, ResetAccel>>
         /\ mpc2.cur_state = <<ResetSpeed, ResetAccel>>
         /\ mpc_model.cur_state = <<ResetSpeed, ResetAccel>>
         /\ LON_MPC_STEP * (planner.a_acc_next - ResetAccel)
              = CP.radarTimeStep * (planner.a_acc - ResetAccel)
         /\ 2000 * (planner.v_acc_next - ResetSpeed)
              = CP.radarTimeStep * (planner.a_acc_next + ResetAccel) * (VQ \div AQ))']_vars

\* A cycle in the starting state with the gas pressed, after an enabled
\* cycle: the start state is minSpeedCan and startAccel, not the ego state.
C14_Witness ==
  /\ sm.received /\ ~planner.first_loop
  /\ sm.controlsState.longControlState = "starting"
  /\ sm.carState.gasPressed
  /\ planner.v_acc_start = CP.minSpeedCan
  /\ planner.v_acc_start # sm.carState.vEgo
  /\ mpc1.cur_state = <<CP.minSpeedCan, CP.startAccel>>
  /\ planner.a_acc_next = CP.startAccel

\* C15: after every cycle, with the control step radarTimeStep and the plan
\* step 0.2 s, a_acc_next = a_acc_start + (control step / plan step) *
\* (a_acc - a_acc_start) and v_acc_next = v_acc_start + control step *
\* (a_acc_next + a_acc_start) / 2; the control step being positive and at
\* most the plan step, a_acc_next lies between a_acc_start and a_acc; when
\* a_acc is a_acc_start, a_acc_next is a_acc_start and v_acc_next is
\* v_acc_start + control step * a_acc_start.  (Steps in milliseconds.)
C15_Interpolation ==
  sm.received =>
    LET control_step == CP.radarTimeStep
        a_start == planner.a_acc_start
        v_start == planner.v_acc_start
        a_next == planner.a_acc_next
        v_next == planner.v_acc_next
    IN /\ 200 * (a_next - a_start) = control_step * (planner.a_acc - a_start)
       /\ 2 * 1000 * (v_next - v_start)
            = control_step * (a_next + a_start) * (VQ \div AQ)
       /\ (0 < control_step /\ control_step <= 200) =>
            /\ Min2(a_start, planner.a_acc) <= a_next
            /\ a_next <= Max2(a_start, planner.a_acc)
       /\ planner.a_acc = a_start =>
            /\ a_next = a_start
            /\ 1000 * (v_next - v_start) = control_step * a_start * (VQ \div AQ)

\* A cycle whose target acceleration is above its start acceleration, which
\* is not zero: a_acc_next is strictly between the two.
C15_Witness ==
  /\ sm.received
  /\ planner.a_acc_start < 0
  /\ planner.a_acc_start < planner.a_acc_next
  /\ planner.a_acc_next < planner.a_acc
  /\ planner.v_acc_next < planner.v_acc_start

C17_FirstCycleOverrides ==
  /\ [][Cycle =>
          /\ planner.first_loop =>
               /\ ~smoother'.called
               /\ (planner.v_acc_start = ResetSpeed /\ planner.a_acc_start = ResetAccel)'
               /\ (mpc1.cur_state = <<ResetSpeed, ResetAccel>>)'
          /\ ~planner'.first_loop
          /\ ~planner.first_loop =>
               (smoother'.called <=>
                  /\ sm'.controlsState.longControlState \in {"pid", "stopping"}
                  /\ ~sm'.carState.brakePressed
                  /\ ~sm'.carState.gasPressed)]_vars
  /\ [][~planner.first_loop => ~planner'.first_loop]_vars
  /\ [](planner.first_loop <=> ~sm.received)

\* An enabled cycle with no pedal pressed in which the smoother did not run:
\* the first cycle.
C17_Witness ==
  /\ sm.received /\ Enabled
  /\ ~sm.carState.brakePressed /\ ~sm.carState.gasPressed
  /\ ~smoother.called
  /\ ~planner.first_loop
  /\ planner.v_acc_start = sm.carState.vEgo
  /\ planner.v_acc_start # 0

\* C18: two planners constructed alike and stepped through the same
\* snapshots, except that each has its own value of forceDecel in every
\* snapshot, with the same returns of the collaborators, are in the same
\* state after every cycle, have called the smoother with the same
\* arguments and publish the same message; the upper limit passed to the
\* smoother is the one limit_accel_in_turns returned, which is never as low
\* as the awareness deceleration.
C18_ForceDecelIsNoOp ==
  /\ twin.planner = planner
  /\ twin.mpc1 = mpc1 /\ twin.mpc2 = mpc2 /\ twin.mpc_model = mpc_model
  /\ twin.fcw_checker = fcw_checker
  /\ twin.smoother = smoother
  /\ twin.plan_send = plan_send
  /\ sm.received =>
       /\ twin.sm.received
       /\ twin.sm = [sm EXCEPT !.controlsState.forceDecel =
                                 twin.sm.controlsState.forceDecel]
  /\ smoother.called =>
       /\ smoother.args[4] > centi(-20)
       /\ smoother.args[5] <= smoother.args[4]
       /\ smoother.args[4] =
            Min2(calc_cruise_accel_limits(sm.carState.vEgo, following(sm))[2],
                 a_x_allowed(sm.carState.vEgo, sm.carState.steeringAngleDeg))

\* A published cycle in which the smoother ran for both planners, one with
\* forceDecel set and the other without.
C18_Witness ==
  /\ sm.received /\ twin.sm.received
  /\ sm.controlsState.forceDecel /\ ~twin.sm.controlsState.forceDecel
  /\ smoother.called /\ twin.smoother.called
  /\ smoother.args[4] > 0
  /\ plan_send.valid /\ twin.plan_send.valid

IndexCall == call.fn = "model_t_idx"

\* |k^2 / 102.4 - t| times 1024, and the lowest index in 0..32 of the
\* smallest such distance.
TimeDistance(t, k) ==
  IF 10 * k * k >= 1024 * t THEN 10 * k * k - 1024 * t ELSE 1024 * t - 10 * k * k
NearestIndex(t) ==
  CHOOSE i \in 0..32 :
    \A k \in 0..32 :
      /\ TimeDistance(t, i) <= TimeDistance(t, k)
      /\ TimeDistance(t, k) = TimeDistance(t, i) => i <= k

\* C19: for each target time t in 0..9 the index chosen is an i in 0..32
\* that minimises |i^2 / 102.4 - t|, the lowest such i; the 10 indices are
\* the same at every read, strictly increasing, and the first is 0; the
\* speeds and distances convert_data returns are the samples at these
\* indices.
C19_NearestIndex ==
  /\ IndexCall =>
       /\ call.ret \in 0..32
       /\ \A k \in 0..32 :
            /\ TimeDistance(call.idx, call.ret) <= TimeDistance(call.idx, k)
            /\ TimeDistance(call.idx, k) = TimeDistance(call.idx, call.ret)
                 => call.ret <= k
       /\ DOMAIN call.table = 0..9
       /\ call.table[call.idx] = call.ret
       /\ call.table[0] = 0
       /\ \A u \in 0..8 : call.table[u] < call.table[u + 1]
       /\ \A u \in 0..9 :
            call.table[u] = <<0, 10, 14, 18, 20, 23, 25, 27, 29, 30>>[u + 1]
  /\ (ConvertCall /\ call.ret.speeds # <<>>) =>
       \A u \in 0..9 :
         /\ call.ret.speeds[u + 1] = call.modelV2.velocity_x[NearestIndex(u) + 1]
         /\ call.ret.distances[u + 1] = call.modelV2.position_x[NearestIndex(u) + 1]

\* The index for t = 3 s is 18 (3.164 s), not 17 (2.822 s).
C19_Witness ==
  /\ IndexCall
  /\ call.idx = 3
  /\ call.ret = 18

\* C20: in every cycle whose control state is neither pid nor stopping, the
\* plan-source label is the one the cycle started with, v_acc and a_acc are
\* the reset values, which are v_acc_start and a_acc_start, a_acc_next is
\* a_acc_start, and v_acc_future is recomputed: the least of the set speed
\* and the future speeds of lead one and lead two.
C20_NotEnabledFrame ==
  [][(Cycle /\ sm'.controlsState.longControlState \notin {"pid", "stopping"}) =>
      /\ planner'.longitudinalPlanSource = planner.longitudinalPlanSource
      /\ (/\ planner.v_acc = ResetSpeed /\ planner.a_acc = ResetAccel
          /\ planner.v_acc = planner.v_acc_start
          /\ planner.a_acc = planner.a_acc_start
          /\ planner.a_acc_next = planner.a_acc_start
          /\ planner.v_acc_future <= v_cruise_setpoint(sm)
          /\ planner.v_acc_future <= mpc1.v_mpc_future
          /\ planner.v_acc_future <= mpc2.v_mpc_future
          /\ planner.v_acc_future \in {v_cruise_setpoint(sm), mpc1.v_mpc_future,
                                        mpc2.v_mpc_future})']_vars

\* A cycle that is not enabled, after one that selected lead one: the label
\* is still lead one, whose candidate is not eligible in this cycle and is
\* not what v_acc is; v_acc_future is lead one's future speed.
C20_Witness ==
  /\ sm.received /\ ~Enabled
  /\ planner.longitudinalPlanSource = "mpc1"
  /\ ~mpc1.prev_lead_status
  /\ planner.v_acc = sm.carState.vEgo
  /\ planner.v_acc # mpc1.v_mpc
  /\ planner.a_acc_next = planner.a_acc_start
  /\ planner.v_acc_future = mpc1.v_mpc_future

====
